---- MODULE Spec2Model ----
(***************************************************************************)
(* Seat allocation (BookingService / EventService over the PostgreSQL      *)
(* stored procedures create_booking and cancel_booking) and the WebSocket  *)
(* subscription registry (WebSocketManager) of the event booking server.   *)
(*                                                                         *)
(* Every HTTP request is a call that runs on the single-threaded server:   *)
(* the code between two awaits is one atomic step, every await on the      *)
(* database is a point where other calls may run.  A database statement    *)
(* (one db.select / db.update / db.execute) is one transaction.            *)
(***************************************************************************)
EXTENDS Integers, Sequences, FiniteSets, TLC

\* ------------------------------------------------------------------ bounds
MaxUsers == 3
MaxCap == 2
NumReq == 3
MaxWsClients == 2
MaxWsEvent == 2
MaxLockEvents == 2

Users == 1..MaxUsers
\* users whose users.role is 'admin'; they also create the events
Admins == {1}
\* the event rows; NoEvent is an id no row has
EventIds == {1}
NoEvent == 0
EventArgs == EventIds \cup {NoEvent}
Reqs == 1..NumReq
\* Booking ids are strings ("BK-<time>-<random>", upper case), written here as
\* numbers above IdBase so that no id is a seat count or a user id; there are
\* enough of them for a fresh one to exist whatever was generated before
NumIds == MaxCap + NumReq
IdBase == MaxUsers + NumIds
BookingIds == (IdBase + 1)..(IdBase + NumIds)
\* the same strings in lower case
LowerCaseIds == (IdBase + NumIds + 1)..(IdBase + NumIds + NumIds)
\* String.prototype.toUpperCase / toLowerCase on an id
toUpperCase(id) == IF id \in LowerCaseIds THEN id - NumIds ELSE id
toLowerCase(id) == IF id \in BookingIds THEN id + NumIds ELSE id
NoBooking == 0
\* eventData.seatCapacity of an update: a validated capacity or undefined
Undefined == -1
CapArgs == (1..MaxCap) \cup {Undefined}

\* ---------------------------------------------------------------- messages
\* Error messages as the words of the thrown Error's message.
MsgOk == <<"ok">>
MsgEventNotFound == <<"Event", "not", "found">>
MsgPastEvent == <<"Cannot", "book", "past", "events">>
MsgNoSeats == <<"No", "seats", "available", "for", "this", "event">>
MsgDuplicate == <<"You", "already", "have", "a", "booking", "for", "this", "event">>
MsgCreateFailed == <<"Failed", "to", "create", "booking", "-", "no", "seats", "available">>
MsgRetrieveFailed == <<"Failed", "to", "retrieve", "created", "booking">>
MsgBookingNotFound == <<"Booking", "not", "found">>
MsgNoCancelPermission == <<"You", "don't", "have", "permission", "to", "cancel", "this", "booking">>
MsgAlreadyCancelled == <<"Booking", "is", "already", "cancelled">>
MsgCancelPast == <<"Cannot", "cancel", "bookings", "for", "past", "events">>
MsgCancelFailed == <<"Failed", "to", "cancel", "booking", "-", "booking", "may", "already", "be", "cancelled">>
MsgNoUpdatePermission == <<"You", "don't", "have", "permission", "to", "update", "this", "event">>
MsgUpdatePast == <<"Cannot", "update", "events", "that", "have", "already", "occurred">>
MsgReduceBelowBooked == <<"Cannot", "reduce", "capacity", "below", "(number", "of", "seats", "already", "booked)">>
MsgUpdateFailed == <<"Failed", "to", "update", "event">>
MsgNoDeletePermission == <<"You", "don't", "have", "permission", "to", "delete", "this", "event">>
MsgDeleteHasBookings == <<"Cannot", "delete", "events", "with", "existing", "bookings">>
\* errors raised by the database itself
MsgDbDuplicateKey == <<"duplicate", "key", "value", "violates", "unique", "constraint">>
MsgDbForeignKey == <<"violates", "foreign", "key", "constraint">>
MsgDbCheck == <<"violates", "check", "constraint">>

\* String.prototype.includes on the words of a message
Includes(msg, part) ==
    \E i \in 1..Len(msg) :
        /\ i + Len(part) - 1 <= Len(msg)
        /\ \A j \in 1..Len(part) : msg[i + j - 1] = part[j]

VARIABLES
    events,              \* table events: id -> row
    bookings,            \* table bookings: rows in insertion order
    bookingLogs,         \* table booking_logs: rows in insertion order
    req,                 \* the calls: arguments, position, locals, outcome
    clients,             \* WebSocketManager.clients
    eventSubscriptions,  \* WebSocketManager.eventSubscriptions
    broken,              \* connections whose ws.send throws
    wsLast,              \* the last broadcast that found a watcher set
    conn                 \* the WebSocket connections: where each one's callbacks are

dbVars == <<events, bookings, bookingLogs>>
wsVars == <<clients, eventSubscriptions, broken, wsLast>>
vars == <<events, bookings, bookingLogs, req, clients, eventSubscriptions, broken, wsLast, conn>>

\* ------------------------------------------------------------------ tables
Null == [exists |-> FALSE]

\* users.role
Role(u) == IF u \in Admins THEN "admin" ELSE "user"

\* events.created_by: events are created by the admin
CreatedBy(e) == CHOOSE a \in Admins : TRUE

\* EventService.getEventById: the row, or null
getEventById(ev, e) ==
    IF e \in DOMAIN ev /\ ev[e].exists THEN ev[e] ELSE Null

\* SELECT ... FROM bookings WHERE user_id = u AND event_id = e AND status = 'confirmed'
ConfirmedRows(bk, u, e) ==
    {i \in 1..Len(bk) : bk[i].userId = u /\ bk[i].eventId = e /\ bk[i].status = "confirmed"}

\* the index of the row with this booking_id, 0 when there is none
RowOfBookingId(bk, id) ==
    IF \E i \in 1..Len(bk) : bk[i].bookingId = id
    THEN CHOOSE i \in 1..Len(bk) : bk[i].bookingId = id
    ELSE 0

\* BookingService.getBookingByBookingId: the booking with its event (left join), or null
getBookingByBookingId(ev, bk, id) ==
    LET i == RowOfBookingId(bk, id) IN
    IF i = 0 THEN Null
    ELSE [exists |-> TRUE, bookingId |-> bk[i].bookingId, userId |-> bk[i].userId,
          eventId |-> bk[i].eventId, status |-> bk[i].status,
          event |-> getEventById(ev, bk[i].eventId)]

\* CHECK (seat_capacity > 0), CHECK (available_seats >= 0 AND available_seats <= seat_capacity)
CheckConstraints(row) ==
    /\ row.seatCapacity > 0
    /\ row.availableSeats >= 0
    /\ row.availableSeats <= row.seatCapacity

\* UniqueViolation without the partial unique index on (user_id, event_id)
UniqueViolation_NoPartialIndex(bk, row) ==
    \E i \in 1..Len(bk) : bk[i].bookingId = row.bookingId

\* UNIQUE (booking_id) and the partial unique index
\* bookings_user_event_confirmed_unique ON (user_id, event_id) WHERE status = 'confirmed'
UniqueViolation(bk, row) ==
    \/ \E i \in 1..Len(bk) : bk[i].bookingId = row.bookingId
    \/ /\ row.status = "confirmed"
       /\ ConfirmedRows(bk, row.userId, row.eventId) # {}

\* The outcome of one statement: the value it returned, the error it raised
\* (<<>> when none) and the tables after it.  A statement that raises leaves
\* the tables as they were (its transaction is rolled back).
Outcome(ok, err, ev, bk, lg) ==
    [ok |-> ok, err |-> err, events |-> ev, bookings |-> bk, bookingLogs |-> lg]

\* create_booking without the UPDATE that decreases available_seats
create_booking_NoDecrement(ev, bk, lg, p_user_id, p_event_id, p_booking_id) ==
    LET found == p_event_id \in DOMAIN ev /\ ev[p_event_id].exists
        available_count == IF found THEN ev[p_event_id].availableSeats ELSE 1
        row == [bookingId |-> p_booking_id, userId |-> p_user_id,
                eventId |-> p_event_id, status |-> "confirmed"]
        logRow == [bookingId |-> p_booking_id, action |-> "created", userId |-> p_user_id,
                   eventId |-> p_event_id, seatsRemaining |-> available_count - 1]
    IN
    IF found /\ available_count <= 0 THEN Outcome(FALSE, <<>>, ev, bk, lg)
    ELSE IF UniqueViolation(bk, row) THEN Outcome(FALSE, MsgDbDuplicateKey, ev, bk, lg)
    ELSE IF ~found THEN Outcome(FALSE, MsgDbForeignKey, ev, bk, lg)
    ELSE Outcome(TRUE, <<>>, ev, Append(bk, row), Append(lg, logRow))

\* create_booking that decreases available_seats before the INSERT and keeps
\* the decrease when the INSERT raises (no rollback)
create_booking_NoRollback(ev, bk, lg, p_user_id, p_event_id, p_booking_id) ==
    LET found == p_event_id \in DOMAIN ev /\ ev[p_event_id].exists
        available_count == IF found THEN ev[p_event_id].availableSeats ELSE 1
        row == [bookingId |-> p_booking_id, userId |-> p_user_id,
                eventId |-> p_event_id, status |-> "confirmed"]
        evRow == [ev[p_event_id] EXCEPT !.availableSeats = @ - 1]
        logRow == [bookingId |-> p_booking_id, action |-> "created", userId |-> p_user_id,
                   eventId |-> p_event_id, seatsRemaining |-> available_count - 1]
    IN
    IF found /\ available_count <= 0 THEN Outcome(FALSE, <<>>, ev, bk, lg)
    ELSE IF ~found THEN Outcome(FALSE, MsgDbForeignKey, ev, bk, lg)
    ELSE IF UniqueViolation(bk, row)
         THEN Outcome(FALSE, MsgDbDuplicateKey, [ev EXCEPT ![p_event_id] = evRow], bk, lg)
    ELSE Outcome(TRUE, <<>>, [ev EXCEPT ![p_event_id] = evRow],
                 Append(bk, row), Append(lg, logRow))

\* SELECT create_booking(p_user_id, p_event_id, p_booking_id)
create_booking(ev, bk, lg, p_user_id, p_event_id, p_booking_id) ==
    LET found == p_event_id \in DOMAIN ev /\ ev[p_event_id].exists
        \* SELECT available_seats INTO available_count ... FOR UPDATE
        available_count == IF found THEN ev[p_event_id].availableSeats ELSE 1
        row == [bookingId |-> p_booking_id, userId |-> p_user_id,
                eventId |-> p_event_id, status |-> "confirmed"]
        evRow == [ev[p_event_id] EXCEPT !.availableSeats = @ - 1]
        logRow == [bookingId |-> p_booking_id, action |-> "created", userId |-> p_user_id,
                   eventId |-> p_event_id, seatsRemaining |-> available_count - 1]
    IN
    IF found /\ available_count <= 0 THEN Outcome(FALSE, <<>>, ev, bk, lg)
    ELSE IF UniqueViolation(bk, row) THEN Outcome(FALSE, MsgDbDuplicateKey, ev, bk, lg)
    ELSE IF ~found THEN Outcome(FALSE, MsgDbForeignKey, ev, bk, lg)
    ELSE IF ~CheckConstraints(evRow) THEN Outcome(FALSE, MsgDbCheck, ev, bk, lg)
    ELSE Outcome(TRUE, <<>>, [ev EXCEPT ![p_event_id] = evRow],
                 Append(bk, row), Append(lg, logRow))

\* SELECT cancel_booking(p_booking_id)
cancel_booking(ev, bk, lg, p_booking_id) ==
    LET i == RowOfBookingId(bk, p_booking_id)
        \* SELECT b.*, e.id ... WHERE b.booking_id = p AND b.status = 'confirmed' FOR UPDATE
        found == /\ i # 0
                 /\ bk[i].status = "confirmed"
                 /\ getEventById(ev, bk[i].eventId).exists
        e == bk[i].eventId
        evRow == [ev[e] EXCEPT !.availableSeats = @ + 1]
        logRow == [bookingId |-> p_booking_id, action |-> "cancelled", userId |-> bk[i].userId,
                   eventId |-> e, seatsRemaining |-> Undefined]
    IN
    IF ~found THEN Outcome(FALSE, <<>>, ev, bk, lg)
    ELSE IF ~CheckConstraints(evRow) THEN Outcome(FALSE, MsgDbCheck, ev, bk, lg)
    ELSE Outcome(TRUE, <<>>, [ev EXCEPT ![e] = evRow],
                 [bk EXCEPT ![i].status = "cancelled"], Append(lg, logRow))

\* update_events that writes the new capacity to both seat columns
update_events_ResetsSeats(ev, bk, lg, id, seatCapacity, availableSeats) ==
    LET found == id \in DOMAIN ev /\ ev[id].exists
        evRow == IF seatCapacity = Undefined THEN ev[id]
                 ELSE [ev[id] EXCEPT !.seatCapacity = seatCapacity,
                                     !.availableSeats = seatCapacity]
    IN
    IF ~found THEN Outcome(FALSE, <<>>, ev, bk, lg)
    ELSE Outcome(TRUE, <<>>, [ev EXCEPT ![id] = evRow], bk, lg)

\* db.update(events).set(updateData).where(eq(events.id, id)).returning():
\* the number of rows updated; seatCapacity = Undefined sets no seat column
update_events(ev, bk, lg, id, seatCapacity, availableSeats) ==
    LET found == id \in DOMAIN ev /\ ev[id].exists
        evRow == IF seatCapacity = Undefined THEN ev[id]
                 ELSE [ev[id] EXCEPT !.seatCapacity = seatCapacity,
                                     !.availableSeats = availableSeats]
    IN
    IF ~found THEN Outcome(FALSE, <<>>, ev, bk, lg)
    ELSE IF ~CheckConstraints(evRow) THEN Outcome(FALSE, MsgDbCheck, ev, bk, lg)
    ELSE Outcome(TRUE, <<>>, [ev EXCEPT ![id] = evRow], bk, lg)


\* ------------------------------------------------------------ HTTP boundary
\* bookings.post: the status of the response for a thrown error
PostStatus(msg) ==
    IF msg = MsgOk THEN 201
    ELSE IF Includes(msg, <<"not", "found">>) THEN 404
    ELSE IF \/ Includes(msg, <<"already", "have", "a", "booking">>)
            \/ Includes(msg, <<"No", "seats", "available">>)
            \/ Includes(msg, <<"Cannot", "book", "past", "events">>) THEN 409
    ELSE 500

\* bookings.delete: the status of the response for a thrown error
DeleteStatus(msg) ==
    IF msg = MsgOk THEN 200
    ELSE IF Includes(msg, <<"not", "found">>) THEN 404
    ELSE IF Includes(msg, <<"don't", "have", "permission">>) THEN 403
    ELSE IF \/ Includes(msg, <<"already", "cancelled">>)
            \/ Includes(msg, <<"Cannot", "cancel">>) THEN 409
    ELSE 500

\* The error response of the booking routes: c.json({ error: ... }, status).
\* The body has the message (a fixed text for 500) and no code field.
ErrorResponse(kind, msg) ==
    LET status == IF kind = "book" THEN PostStatus(msg) ELSE DeleteStatus(msg) IN
    [status |-> status,
     code |-> Undefined,
     error |-> IF status # 500 THEN msg
               ELSE IF kind = "book" THEN <<"Failed", "to", "create", "booking">>
               ELSE <<"Failed", "to", "cancel", "booking">>]

\* ------------------------------------------------------- WebSocketManager
\* if (client.eventId): undefined and 0 are falsy
Truthy(x) == x # Undefined /\ x # 0

Registry(cl, subs) == [clients |-> cl, eventSubscriptions |-> subs]

\* WebSocketManager.unsubscribeFromEvent
unsubscribeFromEvent(cl, subs, clientId, eventId) ==
    LET subs1 == IF eventId \in DOMAIN subs
                 THEN IF subs[eventId] \ {clientId} = {}
                      THEN [e \in DOMAIN subs \ {eventId} |-> subs[e]]
                      ELSE [subs EXCEPT ![eventId] = @ \ {clientId}]
                 ELSE subs
        cl1 == IF clientId \in DOMAIN cl
               THEN [cl EXCEPT ![clientId].eventId = Undefined]
               ELSE cl
    IN Registry(cl1, subs1)

\* WebSocketManager.subscribeToEvent
subscribeToEvent(cl, subs, clientId, eventId) ==
    IF clientId \notin DOMAIN cl THEN Registry(cl, subs)
    ELSE LET r1 == IF Truthy(cl[clientId].eventId)
                   THEN unsubscribeFromEvent(cl, subs, clientId, cl[clientId].eventId)
                   ELSE Registry(cl, subs)
             cl2 == [r1.clients EXCEPT ![clientId].eventId = eventId]
             s1 == r1.eventSubscriptions
             s2 == IF eventId \in DOMAIN s1 THEN s1
                   ELSE [e \in DOMAIN s1 \cup {eventId} |->
                            IF e = eventId THEN {} ELSE s1[e]]
         IN Registry(cl2, [s2 EXCEPT ![eventId] = @ \cup {clientId}])

\* WebSocketManager.addClient
addClient(cl, clientId, userId) ==
    [c \in DOMAIN cl \cup {clientId} |->
        IF c = clientId THEN [userId |-> userId, eventId |-> Undefined] ELSE cl[c]]

\* WebSocketManager.removeClient
removeClient(cl, subs, clientId) ==
    LET r1 == IF clientId \in DOMAIN cl /\ Truthy(cl[clientId].eventId)
              THEN unsubscribeFromEvent(cl, subs, clientId, cl[clientId].eventId)
              ELSE Registry(cl, subs)
    IN Registry([c \in DOMAIN r1.clients \ {clientId} |-> r1.clients[c]],
                r1.eventSubscriptions)

\* The loop of broadcastToEvent over the watcher set it looked up: todo are the
\* members not yet visited; acc.sent are the clients whose send succeeded, each
\* with the event its client record named when the message was sent,
\* acc.sentCount counts the sends that succeeded and acc.failed are the clients
\* whose send threw.  A member without a client record is skipped; a member
\* whose send throws is removed.
RECURSIVE BroadcastLoop(_, _, _, _, _)
BroadcastLoop(cl, subs, brk, todo, acc) ==
    IF todo = {} THEN [clients |-> cl, eventSubscriptions |-> subs, acc |-> acc]
    ELSE LET clientId == CHOOSE c \in todo : TRUE IN
         IF clientId \notin DOMAIN cl
         THEN BroadcastLoop(cl, subs, brk, todo \ {clientId}, acc)
         ELSE IF clientId \in brk
         THEN LET r == removeClient(cl, subs, clientId) IN
              BroadcastLoop(r.clients, r.eventSubscriptions, brk, todo \ {clientId},
                            [acc EXCEPT !.failed = @ \cup {clientId}])
         ELSE BroadcastLoop(cl, subs, brk, todo \ {clientId},
                            [acc EXCEPT !.sent = @ \cup {[clientId |-> clientId,
                                                          watching |-> cl[clientId].eventId]},
                                        !.sentCount = @ + 1])

\* broadcastToEvent before its loop: let sentCount = 0, nothing sent
NoneSent == [sent |-> {}, sentCount |-> 0, failed |-> {}]

NoBroadcast == [eventId |-> Undefined, message |-> [type |-> "none"], to |-> {},
                sentCount |-> 0, failed |-> {}]

\* broadcastToEvent without the try/catch around send: a send that throws
\* ends the call
broadcastToEvent_FailureEscapes(cl, subs, brk, last, eventId, message) ==
    IF eventId \notin DOMAIN subs
    THEN [clients |-> cl, eventSubscriptions |-> subs, wsLast |-> last]
    ELSE LET doomed == \E c \in subs[eventId] : c \in DOMAIN cl /\ c \in brk
             r == BroadcastLoop(cl, subs, brk, IF doomed THEN {} ELSE subs[eventId], NoneSent)
         IN
         [clients |-> r.clients, eventSubscriptions |-> r.eventSubscriptions,
          wsLast |-> [eventId |-> eventId, message |-> message, to |-> r.acc.sent,
                      sentCount |-> r.acc.sentCount, failed |-> r.acc.failed]]

\* WebSocketManager.broadcastToEvent: the registry after the call and the record
\* of the broadcast (unchanged when the event has no watcher set)
broadcastToEvent(cl, subs, brk, last, eventId, message) ==
    IF eventId \notin DOMAIN subs
    THEN [clients |-> cl, eventSubscriptions |-> subs, wsLast |-> last]
    ELSE LET r == BroadcastLoop(cl, subs, brk, subs[eventId], NoneSent) IN
         [clients |-> r.clients, eventSubscriptions |-> r.eventSubscriptions,
          wsLast |-> [eventId |-> eventId, message |-> message, to |-> r.acc.sent,
                      sentCount |-> r.acc.sentCount, failed |-> r.acc.failed]]

\* WebSocketManager.broadcastBookingCreated(eventId, bookingId, userId, availableSeats)
broadcastBookingCreated(eventId, bookingId, userId, availableSeats) ==
    [type |-> "booking_created", eventId |-> eventId, bookingId |-> bookingId,
     userId |-> userId, availableSeats |-> availableSeats]

\* WebSocketManager.broadcastBookingCancelled(eventId, bookingId, userId, availableSeats)
broadcastBookingCancelled(eventId, bookingId, userId, availableSeats) ==
    [type |-> "booking_cancelled", eventId |-> eventId, bookingId |-> bookingId,
     userId |-> userId, availableSeats |-> availableSeats]

\* WebSocketManager.broadcastSeatUpdate(eventId, availableSeats, seatCapacity)
broadcastSeatUpdate(eventId, availableSeats, seatCapacity) ==
    [type |-> "seat_update", eventId |-> eventId, availableSeats |-> availableSeats,
     seatCapacity |-> seatCapacity]

\* the effect of a handler's broadcast on the registry
Broadcast(eventId, message) ==
    LET r == broadcastToEvent(clients, eventSubscriptions, broken, wsLast, eventId, message) IN
    /\ clients' = r.clients
    /\ eventSubscriptions' = r.eventSubscriptions
    /\ wsLast' = r.wsLast
    /\ UNCHANGED broken


\* ------------------------------------------------------------------ calls
Idle == [kind |-> "none", pc |-> "idle", user |-> 0, event |-> NoEvent, bid |-> NoBooking,
         cap |-> 0, avail |-> 0, out |-> <<>>, at |-> "idle"]

\* the call returns or throws: out is MsgOk or the message of the Error, at the
\* step of the handler that ended it
Finish(r, msg) ==
    req' = [req EXCEPT ![r] = [@ EXCEPT !.pc = "done", !.out = msg, !.at = req[r].pc,
                                        !.cap = 0, !.avail = 0]]

Goto(r, pc) == req' = [req EXCEPT ![r].pc = pc]

\* calls are interchangeable: they start in the order of their numbers
MayStart(r) ==
    /\ req[r].kind = "none"
    /\ IF r = 1 THEN TRUE ELSE req[r - 1].kind # "none"

UsedIds(bk) == {bk[i].bookingId : i \in 1..Len(bk)}

\* an id no booking has
FreshId(bk) == CHOOSE id \in BookingIds \ UsedIds(bk) :
                   \A other \in BookingIds \ UsedIds(bk) : id <= other

\* BookingService.generateBookingId: a time stamp and a random part; nothing
\* keeps the result from being the id of an existing booking
generateBookingId(bk) == {toUpperCase(id) : id \in {FreshId(bk)} \cup UsedIds(bk)}

\* The checks shared by validateBookingData and createBooking on the event read
BookableError(event) ==
    IF ~event.exists THEN MsgEventNotFound
    ELSE IF event.past THEN MsgPastEvent
    ELSE IF event.availableSeats <= 0 THEN MsgNoSeats
    ELSE MsgOk

\* POST /api/bookings by user u for event e
StartBook(r, u, e) ==
    /\ MayStart(r)
    /\ req' = [req EXCEPT ![r] = [Idle EXCEPT !.kind = "book", !.pc = "v_event",
                                              !.user = u, !.event = e]]
    /\ UNCHANGED <<dbVars, wsVars, conn>>

\* validateBookingData: getEventById and the checks on the event
ValidateEvent(r) ==
    /\ req[r].pc = "v_event"
    /\ LET err == BookableError(getEventById(events, req[r].event)) IN
       IF err # MsgOk THEN Finish(r, err) ELSE Goto(r, "v_dup")
    /\ UNCHANGED <<dbVars, wsVars, conn>>

\* validateBookingData: the existing-booking select
ValidateDuplicate(r) ==
    /\ req[r].pc = "v_dup"
    /\ IF ConfirmedRows(bookings, req[r].user, req[r].event) # {}
       THEN Finish(r, MsgDuplicate) ELSE Goto(r, "c_event")
    /\ UNCHANGED <<dbVars, wsVars, conn>>

\* createBooking: getEventById and the checks on the event
CreateCheckEvent(r) ==
    /\ req[r].pc = "c_event"
    /\ LET err == BookableError(getEventById(events, req[r].event)) IN
       IF err # MsgOk THEN Finish(r, err) ELSE Goto(r, "c_dup")
    /\ UNCHANGED <<dbVars, wsVars, conn>>

\* createBooking: the existing-booking select
CreateCheckDuplicate(r) ==
    /\ req[r].pc = "c_dup"
    /\ IF ConfirmedRows(bookings, req[r].user, req[r].event) # {}
       THEN Finish(r, MsgDuplicate) ELSE Goto(r, "c_proc")
    /\ UNCHANGED <<dbVars, wsVars, conn>>

\* CreateExecute that broadcasts the seat count it expects before the
\* create_booking statement has run
CreateExecute_BroadcastsFirst(r) ==
    /\ req[r].pc = "c_proc"
    /\ \E bookingId \in generateBookingId(bookings) :
         LET res == create_booking(events, bookings, bookingLogs,
                                   req[r].user, req[r].event, bookingId) IN
         /\ events' = res.events
         /\ bookings' = res.bookings
         /\ bookingLogs' = res.bookingLogs
         /\ IF res.err # <<>>
            THEN IF Includes(res.err, <<"duplicate", "key">>)
                 THEN Finish(r, MsgDuplicate) ELSE Finish(r, res.err)
            ELSE IF ~res.ok THEN Finish(r, MsgCreateFailed)
            ELSE req' = [req EXCEPT ![r].pc = "c_read", ![r].bid = bookingId]
    /\ Broadcast(req[r].event,
                 broadcastBookingCreated(req[r].event,
                     getEventById(events, req[r].event).availableSeats - 1,
                     Undefined, Undefined))
    /\ UNCHANGED conn

\* createBooking: generateBookingId, the create_booking statement and the
\* handling of its result and of the error it raised
CreateExecute(r) ==
    /\ req[r].pc = "c_proc"
    /\ \E bookingId \in generateBookingId(bookings) :
         LET res == create_booking(events, bookings, bookingLogs,
                                   req[r].user, req[r].event, bookingId) IN
         /\ events' = res.events
         /\ bookings' = res.bookings
         /\ bookingLogs' = res.bookingLogs
         /\ IF res.err # <<>>
            THEN IF Includes(res.err, <<"duplicate", "key">>)
                 THEN Finish(r, MsgDuplicate) ELSE Finish(r, res.err)
            ELSE IF ~res.ok THEN Finish(r, MsgCreateFailed)
            ELSE req' = [req EXCEPT ![r].pc = "c_read", ![r].bid = bookingId]
    /\ UNCHANGED <<wsVars, conn>>

\* CreateRetrieve that passes the four arguments of broadcastBookingCreated's
\* signature: the event, the booking's id, its user and the seat count
CreateRetrieve_PassesIds(r) ==
    /\ req[r].pc = "c_read"
    /\ LET createdBooking == getBookingByBookingId(events, bookings, req[r].bid) IN
       IF ~createdBooking.exists
       THEN Finish(r, MsgRetrieveFailed) /\ UNCHANGED wsVars
       ELSE /\ Finish(r, MsgOk)
            /\ IF createdBooking.event.exists
               THEN Broadcast(req[r].event,
                              broadcastBookingCreated(req[r].event,
                                  createdBooking.bookingId, createdBooking.userId,
                                  createdBooking.event.availableSeats))
               ELSE UNCHANGED wsVars
    /\ UNCHANGED <<dbVars, conn>>

\* createBooking: getBookingByBookingId, then the broadcast; the call passes
\* (eventId, createdBooking.event.availableSeats) to broadcastBookingCreated
CreateRetrieve(r) ==
    /\ req[r].pc = "c_read"
    /\ LET createdBooking == getBookingByBookingId(events, bookings, req[r].bid) IN
       IF ~createdBooking.exists
       THEN Finish(r, MsgRetrieveFailed) /\ UNCHANGED wsVars
       ELSE /\ Finish(r, MsgOk)
            /\ IF createdBooking.event.exists
               THEN Broadcast(req[r].event,
                              broadcastBookingCreated(req[r].event,
                                  createdBooking.event.availableSeats, Undefined, Undefined))
               ELSE UNCHANGED wsVars
    /\ UNCHANGED <<dbVars, conn>>

\* DELETE /api/bookings/:id by user u
StartCancel(r, u, id) ==
    /\ MayStart(r)
    /\ id \in generateBookingId(bookings)
    /\ req' = [req EXCEPT ![r] = [Idle EXCEPT !.kind = "cancel", !.pc = "x_read",
                                              !.user = u, !.bid = id]]
    /\ UNCHANGED <<dbVars, wsVars, conn>>

\* DELETE /api/bookings/:id by user u, the id of a booking written in upper or
\* in lower case
StartCancelAs(r, u, id) ==
    /\ MayStart(r)
    /\ toUpperCase(id) \in generateBookingId(bookings)
    /\ req' = [req EXCEPT ![r] = [Idle EXCEPT !.kind = "cancel", !.pc = "x_read",
                                              !.user = u, !.bid = id]]
    /\ UNCHANGED <<dbVars, wsVars, conn>>

\* cancelBooking: getBookingByBookingId and the checks on the booking read;
\* event keeps booking.event.id (NoEvent when the join found no event)
CancelCheck(r) ==
    /\ req[r].pc = "x_read"
    /\ LET booking == getBookingByBookingId(events, bookings, req[r].bid) IN
       IF ~booking.exists THEN Finish(r, MsgBookingNotFound)
       ELSE IF Role(req[r].user) # "admin" /\ booking.userId # req[r].user
            THEN Finish(r, MsgNoCancelPermission)
       ELSE IF booking.status # "confirmed" THEN Finish(r, MsgAlreadyCancelled)
       ELSE IF booking.event.exists /\ booking.event.past THEN Finish(r, MsgCancelPast)
       ELSE req' = [req EXCEPT ![r].pc = "x_proc",
                               ![r].event = IF booking.event.exists
                                            THEN booking.eventId ELSE NoEvent]
    /\ UNCHANGED <<dbVars, wsVars, conn>>

\* cancelBooking: the cancel_booking statement and the handling of its result
CancelExecute(r) ==
    /\ req[r].pc = "x_proc"
    /\ LET res == cancel_booking(events, bookings, bookingLogs, req[r].bid) IN
       /\ events' = res.events
       /\ bookings' = res.bookings
       /\ bookingLogs' = res.bookingLogs
       /\ IF res.err # <<>> THEN Finish(r, res.err)
          ELSE IF ~res.ok THEN Finish(r, MsgCancelFailed)
          ELSE IF req[r].event = NoEvent THEN Finish(r, MsgOk)
          ELSE Goto(r, "x_event")
    /\ UNCHANGED <<wsVars, conn>>

\* cancelBooking: getEventById of the booking's event, then the broadcast; the
\* call passes (booking.event.id, updatedEvent.availableSeats)
CancelBroadcast(r) ==
    /\ req[r].pc = "x_event"
    /\ LET updatedEvent == getEventById(events, req[r].event) IN
       /\ Finish(r, MsgOk)
       /\ IF updatedEvent.exists
          THEN Broadcast(req[r].event,
                         broadcastBookingCancelled(req[r].event,
                             updatedEvent.availableSeats, Undefined, Undefined))
          ELSE UNCHANGED wsVars
    /\ UNCHANGED <<dbVars, conn>>

\* PUT /api/events/:id by user u with eventData.seatCapacity = c
StartUpdate(r, u, e, c) ==
    /\ MayStart(r)
    /\ req' = [req EXCEPT ![r] = [Idle EXCEPT !.kind = "update", !.pc = "u_read",
                                              !.user = u, !.event = e, !.cap = c]]
    /\ UNCHANGED <<dbVars, wsVars, conn>>

\* updateEvent: getEventById, the checks and the computation of updateData
UpdateCheck(r) ==
    /\ req[r].pc = "u_read"
    /\ LET existingEvent == getEventById(events, req[r].event)
           bookedSeats == existingEvent.seatCapacity - existingEvent.availableSeats
       IN
       IF ~existingEvent.exists THEN Finish(r, MsgEventNotFound)
       ELSE IF Role(req[r].user) # "admin" /\ CreatedBy(req[r].event) # req[r].user
            THEN Finish(r, MsgNoUpdatePermission)
       ELSE IF existingEvent.past THEN Finish(r, MsgUpdatePast)
       ELSE IF req[r].cap = Undefined THEN Goto(r, "u_write")
       ELSE IF req[r].cap < bookedSeats THEN Finish(r, MsgReduceBelowBooked)
       ELSE req' = [req EXCEPT ![r].pc = "u_write", ![r].avail = req[r].cap - bookedSeats]
    /\ UNCHANGED <<dbVars, wsVars, conn>>

\* updateEvent: the update statement
UpdateWrite(r) ==
    /\ req[r].pc = "u_write"
    /\ LET res == update_events(events, bookings, bookingLogs,
                                req[r].event, req[r].cap, req[r].avail) IN
       /\ events' = res.events
       /\ bookings' = res.bookings
       /\ bookingLogs' = res.bookingLogs
       /\ IF res.err # <<>> THEN Finish(r, res.err)
          ELSE IF ~res.ok THEN Finish(r, MsgUpdateFailed)
          ELSE Goto(r, "u_event")
    /\ UNCHANGED <<wsVars, conn>>

\* updateEvent: getEventById of the updated event, then the seat broadcast
UpdateBroadcast(r) ==
    /\ req[r].pc = "u_event"
    /\ LET updatedEvent == getEventById(events, req[r].event) IN
       IF ~updatedEvent.exists
       THEN Finish(r, <<"Failed", "to", "retrieve", "updated", "event">>) /\ UNCHANGED wsVars
       ELSE /\ Finish(r, MsgOk)
            /\ IF req[r].cap # Undefined
               THEN Broadcast(req[r].event,
                              broadcastSeatUpdate(req[r].event, updatedEvent.availableSeats,
                                                  updatedEvent.seatCapacity))
               ELSE UNCHANGED wsVars
    /\ UNCHANGED <<dbVars, conn>>

\* db.delete(events).where(eq(events.id, id)): the event row goes, and with it
\* the bookings that reference it (bookings_event_id_events_id_fk ON DELETE
\* cascade); booking_logs has no foreign key
delete_events(ev, bk, lg, id) ==
    IF id \in DOMAIN ev /\ ev[id].exists
    THEN Outcome(TRUE, <<>>, [ev EXCEPT ![id] = Null],
                 SelectSeq(bk, LAMBDA row : row.eventId # id), lg)
    ELSE Outcome(TRUE, <<>>, ev, bk, lg)

\* DELETE /api/events/:id by user u
StartDelete(r, u, e) ==
    /\ MayStart(r)
    /\ req' = [req EXCEPT ![r] = [Idle EXCEPT !.kind = "delete", !.pc = "d_read",
                                              !.user = u, !.event = e]]
    /\ UNCHANGED <<dbVars, wsVars, conn>>

\* deleteEvent: getEventById and the checks
DeleteCheck(r) ==
    /\ req[r].pc = "d_read"
    /\ LET existingEvent == getEventById(events, req[r].event) IN
       IF ~existingEvent.exists THEN Finish(r, MsgEventNotFound)
       ELSE IF Role(req[r].user) # "admin" /\ CreatedBy(req[r].event) # req[r].user
            THEN Finish(r, MsgNoDeletePermission)
       ELSE IF existingEvent.availableSeats < existingEvent.seatCapacity
            THEN Finish(r, MsgDeleteHasBookings)
       ELSE Goto(r, "d_write")
    /\ UNCHANGED <<dbVars, wsVars, conn>>

\* deleteEvent: the delete statement
DeleteWrite(r) ==
    /\ req[r].pc = "d_write"
    /\ LET res == delete_events(events, bookings, bookingLogs, req[r].event) IN
       /\ events' = res.events
       /\ bookings' = res.bookings
       /\ bookingLogs' = res.bookingLogs
    /\ Finish(r, MsgOk)
    /\ UNCHANGED <<wsVars, conn>>

\* the event's date is reached
EventOccurs(e) ==
    /\ events[e].exists
    /\ ~events[e].past
    /\ events' = [events EXCEPT ![e].past = TRUE]
    /\ UNCHANGED <<bookings, bookingLogs, req, wsVars, conn>>

\* ------------------------------------------------------------ specification
\* EventService.createEvent: all seats of a new event are available
NewEvent(capacity) ==
    [exists |-> TRUE, seatCapacity |-> capacity, availableSeats |-> capacity, past |-> FALSE]

InitWs ==
    /\ clients = <<>>
    /\ eventSubscriptions = <<>>
    /\ broken = {}
    /\ wsLast = NoBroadcast
    /\ conn = [c \in 1..MaxWsClients |-> "none"]

Init ==
    /\ \E capacity \in 1..MaxCap : events = [e \in EventIds |-> NewEvent(capacity)]
    /\ bookings = <<>>
    /\ bookingLogs = <<>>
    /\ req = [r \in Reqs |-> Idle]
    /\ InitWs

BookStep(r) ==
    \/ ValidateEvent(r)
    \/ ValidateDuplicate(r)
    \/ CreateCheckEvent(r)
    \/ CreateCheckDuplicate(r)
    \/ CreateExecute(r)
    \/ CreateRetrieve(r)

CancelStep(r) ==
    \/ CancelCheck(r)
    \/ CancelExecute(r)
    \/ CancelBroadcast(r)

UpdateStep(r) ==
    \/ UpdateCheck(r)
    \/ UpdateWrite(r)
    \/ UpdateBroadcast(r)

Next ==
    \/ \E r \in Reqs, u \in Users, e \in EventArgs : StartBook(r, u, e)
    \/ \E r \in Reqs, u \in Users, id \in BookingIds : StartCancel(r, u, id)
    \/ \E r \in Reqs, u \in Users, e \in EventArgs, c \in CapArgs : StartUpdate(r, u, e, c)
    \/ \E r \in Reqs : BookStep(r) \/ CancelStep(r) \/ UpdateStep(r)
    \/ \E e \in EventIds : EventOccurs(e)

Spec == Init /\ [][Next]_vars


\* ----------------------------------------------------- WebSocket connections
Conns == 1..MaxWsClients
WsEventIds == 0..MaxWsEvent
\* the user a connection's token names; the registry never reads it
WsUsers == {CHOOSE u \in Users : u \notin Admins}

\* GET /ws/events/:eventId is upgraded; onOpen starts and awaits the token check
WsUpgrade(c) ==
    /\ conn[c] = "none"
    /\ conn' = [conn EXCEPT ![c] = "auth"]
    /\ UNCHANGED <<dbVars, req, wsVars>>

\* onOpen: the token is missing or invalid, the socket is closed
WsReject(c) ==
    /\ conn[c] = "auth"
    /\ conn' = [conn EXCEPT ![c] = "closed"]
    /\ UNCHANGED <<dbVars, req, wsVars>>

\* onOpen after the token check: addClient, then subscribeToEvent when the
\* path's eventId is a number (Undefined stands for NaN and for the route
\* without an event).  The client id is the connection's.
WsAuthenticated(c, u, e) ==
    /\ conn[c] \in {"auth", "auth_closed"}
    /\ LET cl1 == addClient(clients, c, u)
           r == IF e # Undefined THEN subscribeToEvent(cl1, eventSubscriptions, c, e)
                ELSE Registry(cl1, eventSubscriptions)
       IN /\ clients' = r.clients
          /\ eventSubscriptions' = r.eventSubscriptions
    /\ conn' = [conn EXCEPT ![c] = IF conn[c] = "auth" THEN "open" ELSE "closed"]
    /\ UNCHANGED <<dbVars, req, broken, wsLast>>

\* onMessage {type: 'subscribe_event', eventId: e}
WsSubscribe(c, e) ==
    /\ conn[c] = "open"
    /\ c \notin broken
    /\ LET r == subscribeToEvent(clients, eventSubscriptions, c, e) IN
       /\ clients' = r.clients
       /\ eventSubscriptions' = r.eventSubscriptions
    /\ UNCHANGED <<dbVars, req, broken, wsLast, conn>>

\* onMessage {type: 'unsubscribe_event', eventId: e}
WsUnsubscribe(c, e) ==
    /\ conn[c] = "open"
    /\ c \notin broken
    /\ LET r == unsubscribeFromEvent(clients, eventSubscriptions, c, e) IN
       /\ clients' = r.clients
       /\ eventSubscriptions' = r.eventSubscriptions
    /\ UNCHANGED <<dbVars, req, broken, wsLast, conn>>

\* onClose: removeClient when onOpen has set clientId
WsClose(c) ==
    /\ conn[c] \in {"auth", "open", "errored"}
    /\ LET r == IF conn[c] = "auth" THEN Registry(clients, eventSubscriptions)
                ELSE removeClient(clients, eventSubscriptions, c) IN
       /\ clients' = r.clients
       /\ eventSubscriptions' = r.eventSubscriptions
    /\ conn' = [conn EXCEPT ![c] = IF conn[c] = "auth" THEN "auth_closed" ELSE "closed"]
    /\ broken' = broken \ {c}
    /\ UNCHANGED <<dbVars, req, wsLast>>

\* onError: removeClient; the close callback follows
WsError(c) ==
    /\ conn[c] = "open"
    /\ LET r == removeClient(clients, eventSubscriptions, c) IN
       /\ clients' = r.clients
       /\ eventSubscriptions' = r.eventSubscriptions
    /\ conn' = [conn EXCEPT ![c] = "errored"]
    /\ UNCHANGED <<dbVars, req, broken, wsLast>>

\* the transport of an open connection dies: its send throws from now on, its
\* close callback has not run yet
WsBreak(c) ==
    /\ conn[c] = "open"
    /\ c \notin broken
    /\ broken' = broken \cup {c}
    /\ UNCHANGED <<dbVars, req, clients, eventSubscriptions, wsLast, conn>>

\* the events handlers broadcast about: rows of the events table, whose serial
\* ids start at 1
WsBroadcastIds == 1..MaxWsEvent

\* a handler broadcasts a seat update for event e
WsBroadcast(e) ==
    /\ Broadcast(e, broadcastSeatUpdate(e, Undefined, Undefined))
    /\ UNCHANGED <<dbVars, req, conn>>

NextWs ==
    \/ \E c \in Conns : WsUpgrade(c) \/ WsReject(c) \/ WsClose(c) \/ WsError(c) \/ WsBreak(c)
    \/ \E c \in Conns, u \in WsUsers, e \in WsEventIds \cup {Undefined} : WsAuthenticated(c, u, e)
    \/ \E c \in Conns, e \in WsEventIds : WsSubscribe(c, e) \/ WsUnsubscribe(c, e)
    \/ \E e \in WsBroadcastIds : WsBroadcast(e)

\* the broadcaster alone: connections come and go, handlers broadcast
InitWsOnly == Init /\ \A e \in EventIds : events[e].seatCapacity = MaxCap

SpecWs == InitWsOnly /\ [][NextWs]_vars

\* reserve calls only
NextReserve ==
    \/ \E r \in Reqs, u \in Users, e \in EventArgs : StartBook(r, u, e)
    \/ \E r \in Reqs : BookStep(r)
    \/ \E e \in EventIds : EventOccurs(e)

SpecReserve == Init /\ [][NextReserve]_vars

\* reserve and release calls
NextAlloc ==
    \/ \E r \in Reqs, u \in Users, e \in EventArgs : StartBook(r, u, e)
    \/ \E r \in Reqs, u \in Users, id \in BookingIds : StartCancel(r, u, id)
    \/ \E r \in Reqs : BookStep(r) \/ CancelStep(r)
    \/ \E e \in EventIds : EventOccurs(e)

SpecAlloc == Init /\ [][NextAlloc]_vars

\* reserve and release calls while a connection watches the event: the
\* connection is opened on /ws/events/:eventId first and stays open
Watchers == {CHOOSE c \in Conns : TRUE}

WatchOpen(c, u, e) == conn[c] = "auth" /\ WsAuthenticated(c, u, e)

Watched == \A c \in Watchers : conn[c] = "open"

WatchedBook(r, u, e) == Watched /\ StartBook(r, u, e)

WatchedCancel(r, u, id) == Watched /\ StartCancel(r, u, id)

NextNotify ==
    \/ \E c \in Watchers : WsUpgrade(c)
    \/ \E c \in Watchers, u \in WsUsers, e \in EventIds : WatchOpen(c, u, e)
    \/ \E r \in Reqs, u \in Users, e \in EventArgs : WatchedBook(r, u, e)
    \/ \E r \in Reqs, u \in Users, id \in BookingIds : WatchedCancel(r, u, id)
    \/ \E r \in Reqs : BookStep(r) \/ CancelStep(r)

SpecNotify == Init /\ [][NextNotify]_vars

\* reserve and release calls made one after the other: a call starts when
\* every earlier call has returned
Sequential == \A r \in Reqs : req[r].pc \in {"idle", "done"}

SeqBook(r, u, e) == Sequential /\ StartBook(r, u, e)

SeqCancel(r, u, id) == Sequential /\ StartCancel(r, u, id)

NextSeq ==
    \/ \E r \in Reqs, u \in Users, e \in EventArgs : SeqBook(r, u, e)
    \/ \E r \in Reqs, u \in Users, id \in BookingIds : SeqCancel(r, u, id)
    \/ \E r \in Reqs : BookStep(r) \/ CancelStep(r)
    \/ \E e \in EventIds : EventOccurs(e)

SpecSeq == Init /\ [][NextSeq]_vars

\* reserve, release and event delete calls made one after the other
SeqDelete(r, u, e) == Sequential /\ StartDelete(r, u, e)

DeleteStep(r) ==
    \/ DeleteCheck(r)
    \/ DeleteWrite(r)

NextHistory ==
    \/ \E r \in Reqs, u \in Users, e \in EventArgs : SeqBook(r, u, e)
    \/ \E r \in Reqs, u \in Users, id \in BookingIds : SeqCancel(r, u, id)
    \/ \E r \in Reqs, u \in Users, e \in EventArgs : SeqDelete(r, u, e)
    \/ \E r \in Reqs : BookStep(r) \/ CancelStep(r) \/ DeleteStep(r)
    \/ \E e \in EventIds : EventOccurs(e)

SpecHistory == Init /\ [][NextHistory]_vars

\* reserve calls and release calls that write the id in either letter case,
\* made one after the other
SeqCancelAs(r, u, id) == Sequential /\ StartCancelAs(r, u, id)

NextLookup ==
    \/ \E r \in Reqs, u \in Users, e \in EventArgs : SeqBook(r, u, e)
    \/ \E r \in Reqs, u \in Users, id \in BookingIds \cup LowerCaseIds : SeqCancelAs(r, u, id)
    \/ \E r \in Reqs : BookStep(r) \/ CancelStep(r)
    \/ \E e \in EventIds : EventOccurs(e)

SpecLookup == Init /\ [][NextLookup]_vars


\* ------------------------------------------------------------------ row locks
\* create_booking and cancel_booking statement by statement.  A call's
\* position says which row locks its transaction holds: SELECT ... FOR UPDATE
\* waits until no other transaction holds the row, and the locks are released
\* when the function returns or raises (the statement's transaction ends).
LockEventIds == 1..MaxLockEvents

\* the call h holds the lock on the events row e
HoldsEventRow(h, e) ==
    /\ req[h].pc \in {"cb_locked", "cb_inserted", "xb_both", "xb_updated"}
    /\ req[h].event = e
    /\ getEventById(events, e).exists

\* the call h holds the lock on the bookings row with this booking_id
HoldsBookingRow(h, id) ==
    /\ req[h].pc \in {"xb_row", "xb_both", "xb_updated"}
    /\ req[h].bid = id

\* FOR UPDATE on the events row e can be granted: none of the others holds it
EventRowLockFree(others, e) ==
    \A h \in others : ~HoldsEventRow(h, e)

\* FOR UPDATE on the bookings row can be granted: none of the others holds it
BookingRowLockFree(others, id) ==
    \A h \in others : ~HoldsBookingRow(h, id)

\* The unique indexes let the INSERT of (id, u, e) go on: none of the others
\* has, in a transaction still in progress, inserted a row with the same
\* booking_id or the same confirmed (user_id, event_id), or updated such a row.
\* Otherwise the INSERT waits for that transaction to end.
InsertMayProceed(others, id, u, e) ==
    \A h \in others :
        LET i == RowOfBookingId(bookings, req[h].bid) IN
        /\ ~ ( /\ req[h].pc = "cb_inserted"
               /\ req[h].bid = id \/ (req[h].user = u /\ req[h].event = e) )
        /\ ~ ( /\ req[h].pc = "xb_updated"
               /\ req[h].bid = id \/ (bookings[i].userId = u /\ bookings[i].eventId = e) )

\* SELECT create_booking(u, e, id) is sent
CallCreateBooking(r, u, e) ==
    /\ MayStart(r)
    /\ \E id \in generateBookingId(bookings) :
         req' = [req EXCEPT ![r] = [Idle EXCEPT !.kind = "book", !.pc = "cb_begin",
                                                !.user = u, !.event = e, !.bid = id]]
    /\ UNCHANGED <<dbVars, wsVars, conn>>

\* create_booking: SELECT available_seats INTO available_count ... FOR UPDATE
\* (no row and no lock when the event does not exist)
CreateLockEvent(r) ==
    /\ req[r].pc = "cb_begin"
    /\ getEventById(events, req[r].event).exists
           => EventRowLockFree(Reqs \ {r}, req[r].event)
    /\ Goto(r, "cb_locked")
    /\ UNCHANGED <<dbVars, wsVars, conn>>

\* create_booking: the seat check (RETURN FALSE) and the INSERT INTO bookings,
\* which waits for a transaction in progress that wrote a conflicting row and
\* raises when a unique index or the foreign key is violated
CreateInsert(r) ==
    /\ req[r].pc = "cb_locked"
    /\ LET event == getEventById(events, req[r].event)
           res == create_booking(events, bookings, bookingLogs,
                                 req[r].user, req[r].event, req[r].bid)
       IN IF event.exists /\ event.availableSeats <= 0 THEN Finish(r, MsgCreateFailed)
          ELSE /\ InsertMayProceed(Reqs \ {r}, req[r].bid, req[r].user, req[r].event)
               /\ IF res.err # <<>> THEN Finish(r, res.err) ELSE Goto(r, "cb_inserted")
    /\ UNCHANGED <<dbVars, wsVars, conn>>

\* create_booking from the UPDATE of the event to RETURN TRUE: the transaction
\* commits
CreateCommit(r) ==
    /\ req[r].pc = "cb_inserted"
    /\ LET res == create_booking(events, bookings, bookingLogs,
                                 req[r].user, req[r].event, req[r].bid) IN
       /\ events' = res.events
       /\ bookings' = res.bookings
       /\ bookingLogs' = res.bookingLogs
       /\ Finish(r, IF res.err # <<>> THEN res.err
                    ELSE IF res.ok THEN MsgOk ELSE MsgCreateFailed)
    /\ UNCHANGED <<wsVars, conn>>

\* SELECT cancel_booking(id) is sent
CallCancelBooking(r, id) ==
    /\ MayStart(r)
    /\ id \in generateBookingId(bookings)
    /\ req' = [req EXCEPT ![r] = [Idle EXCEPT !.kind = "cancel", !.pc = "xb_begin",
                                              !.bid = id]]
    /\ UNCHANGED <<dbVars, wsVars, conn>>

\* cancel_booking: SELECT b.*, e.id ... WHERE b.booking_id = p AND
\* b.status = 'confirmed' FOR UPDATE, the lock on the bookings row; NOT FOUND
\* returns FALSE.  The row is read again once the lock is granted.
CancelLockBooking(r) ==
    /\ req[r].pc = "xb_begin"
    /\ LET i == RowOfBookingId(bookings, req[r].bid)
           found == /\ i # 0
                    /\ bookings[i].status = "confirmed"
                    /\ getEventById(events, bookings[i].eventId).exists
       IN IF ~found THEN Finish(r, MsgCancelFailed)
          ELSE /\ BookingRowLockFree(Reqs \ {r}, req[r].bid)
               /\ req' = [req EXCEPT ![r].pc = "xb_row", ![r].event = bookings[i].eventId]
    /\ UNCHANGED <<dbVars, wsVars, conn>>

\* cancel_booking: the same SELECT's lock on the joined events row
CancelLockEvent(r) ==
    /\ req[r].pc = "xb_row"
    /\ EventRowLockFree(Reqs \ {r}, req[r].event)
    /\ Goto(r, "xb_both")
    /\ UNCHANGED <<dbVars, wsVars, conn>>

\* cancel_booking: UPDATE bookings SET status = 'cancelled'
CancelUpdateBooking(r) ==
    /\ req[r].pc = "xb_both"
    /\ Goto(r, "xb_updated")
    /\ UNCHANGED <<dbVars, wsVars, conn>>

\* cancel_booking from the UPDATE of the event to RETURN TRUE: the
\* transaction commits
CancelCommit(r) ==
    /\ req[r].pc = "xb_updated"
    /\ LET res == cancel_booking(events, bookings, bookingLogs, req[r].bid) IN
       /\ events' = res.events
       /\ bookings' = res.bookings
       /\ bookingLogs' = res.bookingLogs
       /\ Finish(r, IF res.err # <<>> THEN res.err
                    ELSE IF res.ok THEN MsgOk ELSE MsgCancelFailed)
    /\ UNCHANGED <<wsVars, conn>>

\* the tables when the calls start: the first n events have one seat held, by
\* the same user
HeldAtStart(n) ==
    [i \in 1..n |-> [bookingId |-> IdBase + i, userId |-> CHOOSE u \in Users : u \notin Admins,
                     eventId |-> i, status |-> "confirmed"]]

InitLocks ==
    /\ \E n \in 0..MaxLockEvents :
         /\ n <= NumIds - NumReq
         /\ events = [e \in LockEventIds |->
                        [NewEvent(MaxCap) EXCEPT !.availableSeats =
                                                    IF e <= n THEN MaxCap - 1 ELSE MaxCap]]
         /\ bookings = HeldAtStart(n)
         /\ bookingLogs = [i \in 1..n |->
                             [bookingId |-> HeldAtStart(n)[i].bookingId, action |-> "created",
                              userId |-> HeldAtStart(n)[i].userId, eventId |-> i,
                              seatsRemaining |-> MaxCap - 1]]
    /\ req = [r \in Reqs |-> Idle]
    /\ InitWs

LockStep(r) ==
    \/ CreateLockEvent(r)
    \/ CreateInsert(r)
    \/ CreateCommit(r)
    \/ CancelLockBooking(r)
    \/ CancelLockEvent(r)
    \/ CancelUpdateBooking(r)
    \/ CancelCommit(r)

NextLocks ==
    \/ \E r \in Reqs, u \in Users \ Admins, e \in LockEventIds : CallCreateBooking(r, u, e)
    \/ \E r \in Reqs, id \in BookingIds : CallCancelBooking(r, id)
    \/ \E r \in Reqs : LockStep(r)

\* the database runs every transaction that is not waiting for a lock
SpecLocks == InitLocks /\ [][NextLocks]_vars /\ \A r \in Reqs : WF_vars(LockStep(r))



\* ------------------------------------------------------------------ claims
\* the Held (confirmed) reservations of event e
HeldRows(e) ==
    {i \in 1..Len(bookings) : bookings[i].eventId = e /\ bookings[i].status = "confirmed"}

\* no call is in progress
Quiet == \A r \in Reqs : req[r].pc \in {"idle", "done"}

\* the reserve calls made for event e
ReserveCalls(e) == {r \in Reqs : req[r].kind = "book" /\ req[r].event = e}

\* the two errors of createBooking that say that no seat is left
SeatsExhausted(msg) == msg \in {MsgNoSeats, MsgCreateFailed}

\* C1: when N > K reserve calls by N distinct subjects, none of whom holds a
\* reservation, have run concurrently on a future event with K available seats
\* (here a new event, whose K seats are all available), exactly K of them
\* returned a reservation, the other N - K failed with SeatsExhausted and
\* availableSeats is 0.
C1_ExactlyKReserved ==
    \A e \in EventIds :
        LET calls == ReserveCalls(e)
            K == events[e].seatCapacity
        IN  ( /\ Quiet
              /\ ~events[e].past
              /\ Cardinality(calls) > K
              /\ \A r1, r2 \in calls : r1 # r2 => req[r1].user # req[r2].user )
            => /\ Cardinality({r \in calls : req[r].out = MsgOk}) = K
               /\ \A r \in calls : req[r].out # MsgOk => SeatsExhausted(req[r].out)
               /\ events[e].availableSeats = 0

\* The same with the hypothesis that no call generated the id of an existing
\* booking: every failure is then a SeatsExhausted one.
ExactlyKReservedWithFreshIds ==
    \A e \in EventIds :
        LET calls == ReserveCalls(e)
            K == events[e].seatCapacity
        IN  ( /\ Quiet
              /\ ~events[e].past
              /\ Cardinality(calls) > K
              /\ \A r1, r2 \in calls : r1 # r2 => req[r1].user # req[r2].user
              /\ \A r \in calls : req[r].out # MsgDuplicate )
            => /\ Cardinality({r \in calls : req[r].out = MsgOk}) = K
               /\ \A r \in calls : req[r].out # MsgOk => SeatsExhausted(req[r].out)
               /\ events[e].availableSeats = 0

\* C2: under any interleaving of reserve and release calls, the Held
\* reservations of an event never outnumber its seatCapacity and
\* 0 <= availableSeats <= seatCapacity.
C2_NoOverselling ==
    \A e \in EventIds :
        /\ Cardinality(HeldRows(e)) <= events[e].seatCapacity
        /\ 0 <= events[e].availableSeats
        /\ events[e].availableSeats <= events[e].seatCapacity

\* a reserve call passed the unlocked seat check and was rejected by
\* create_booking's check under the row lock; the event is sold out
C2_Witness ==
    \E r \in Reqs :
        /\ req[r].kind = "book"
        /\ req[r].out = MsgCreateFailed
        /\ req[r].event \in EventIds
        /\ Cardinality(HeldRows(req[r].event)) = events[req[r].event].seatCapacity

\* C4: no (subject, event) pair has more than one Held reservation, also when
\* several reserve calls of the subject pass the unlocked duplicate check
\* before any of them commits.
C4_OneHeldPerSubject ==
    \A u \in Users, e \in EventIds : Cardinality(ConfirmedRows(bookings, u, e)) <= 1

\* two reserve calls of one subject for one event both passed the duplicate
\* check; one holds the reservation, the other was refused by create_booking
C4_Witness ==
    \E r1, r2 \in Reqs :
        /\ r1 # r2
        /\ req[r1].kind = "book" /\ req[r2].kind = "book"
        /\ req[r1].user = req[r2].user /\ req[r1].event = req[r2].event
        /\ req[r1].bid # NoBooking
        /\ RowOfBookingId(bookings, req[r1].bid) \in ConfirmedRows(bookings, req[r1].user, req[r1].event)
        /\ req[r2].at = "c_proc" /\ req[r2].out = MsgDuplicate

\* C6: a reserve call that fails, at whichever step, leaves the events, the
\* bookings and the audit log as they were; and a step adds a booking exactly
\* when it takes one seat from the booking's event.
C6_FailedReserveChangesNothing ==
    [][ /\ \A r \in Reqs :
              ( /\ req[r].kind = "book"
                /\ req[r].pc # "done"
                /\ req'[r].pc = "done"
                /\ req'[r].out # MsgOk )
              => UNCHANGED dbVars
        /\ \A e \in EventIds :
              ( /\ Len(bookings') = Len(bookings) + 1
                /\ bookings'[Len(bookings')].eventId = e )
              <=> events'[e].availableSeats = events[e].availableSeats - 1
      ]_vars

\* a reserve call failed inside create_booking on a unique violation, after
\* the event row was locked
C6_Witness ==
    \E r \in Reqs :
        /\ req[r].kind = "book"
        /\ req[r].at = "c_proc"
        /\ req[r].out = MsgDuplicate

\* C3: at all times availableSeats + the number of Held reservations of the
\* event = seatCapacity, under reserve, release and admin capacity update.
C3_Conservation ==
    \A e \in EventIds :
        events[e].availableSeats + Cardinality(HeldRows(e)) = events[e].seatCapacity

\* C5: of the release calls on one reservation exactly one succeeds, the seat
\* is given back once, and every other call (by the owner or an admin, on an
\* existing reservation of an event that has not occurred) fails with
\* AlreadyReleased: status 409 with the already-cancelled error.
AlreadyReleased(msg) ==
    /\ Includes(msg, <<"already", "cancelled">>)
    /\ DeleteStatus(msg) = 409

ReleaseCalls(id) == {r \in Reqs : req[r].kind = "cancel" /\ req[r].bid = id /\ req[r].pc = "done"}

C5_ReleasedOnce ==
    \A id \in BookingIds :
        /\ Cardinality({r \in ReleaseCalls(id) : req[r].out = MsgOk}) <= 1
        /\ Cardinality({i \in 1..Len(bookingLogs) :
                           /\ bookingLogs[i].bookingId = id
                           /\ bookingLogs[i].action = "cancelled"}) <= 1
        /\ \A r \in ReleaseCalls(id) :
              req[r].out \notin {MsgOk, MsgBookingNotFound, MsgNoCancelPermission, MsgCancelPast}
              => AlreadyReleased(req[r].out)

\* C7: a subject reserves event e (call r1), releases that reservation (r2)
\* and reserves e again (r3) while e is in the future, with no other call:
\* after the release availableSeats is what it was before the first reserve,
\* the second reserve succeeds with a new id and takes one seat.
Rebooking(r1, r2, r3) ==
    /\ req[r1].kind = "book" /\ req[r1].pc = "done" /\ req[r1].out = MsgOk
    /\ req[r2].kind = "cancel" /\ req[r2].pc = "done" /\ req[r2].out = MsgOk
    /\ req[r2].bid = req[r1].bid /\ req[r2].user = req[r1].user
    /\ req[r3].kind = "book" /\ req[r3].user = req[r1].user /\ req[r3].event = req[r1].event
    /\ \A r \in Reqs \ {r1, r2, r3} : req[r].kind = "none"

C7_ReserveReleaseReserve ==
    [][ \A r1, r2, r3 \in Reqs :
          ( /\ Rebooking(r1, r2, r3)
            /\ ~events[req[r1].event].past
            /\ req[r3].pc = "c_proc"
            /\ req'[r3].pc # "c_proc" )
          => /\ events[req[r1].event].availableSeats = events[req[r1].event].seatCapacity
             /\ req'[r3].pc = "c_read"
             /\ req'[r3].bid # req[r1].bid
             /\ events'[req[r1].event].availableSeats
                   = events[req[r1].event].availableSeats - 1
             /\ ConfirmedRows(bookings', req[r3].user, req[r3].event)
                   = {RowOfBookingId(bookings', req'[r3].bid)}
      ]_vars

\* the steps that commit a reserve, a release and a capacity update of event e
ReserveCommits(r, e) ==
    /\ req[r].kind = "book" /\ req[r].event = e
    /\ req[r].pc = "c_proc" /\ req'[r].pc = "c_read"

ReleaseCommits(r, e) ==
    /\ req[r].kind = "cancel" /\ req[r].event = e
    /\ req[r].pc = "x_proc"
    /\ req'[r].pc = "x_event" \/ (req'[r].pc = "done" /\ req'[r].out = MsgOk)

CapacityUpdateCommits(r, e) ==
    /\ req[r].kind = "update" /\ req[r].event = e /\ req[r].cap # Undefined
    /\ req[r].pc = "u_write" /\ req'[r].pc = "u_event"

\* C8 as claimed: availableSeats changes only by a successful reserve (-1) or
\* a successful release (+1); every other operation leaves it unchanged.
C8_OnlyReserveAndRelease ==
    [][ \A e \in EventIds :
          /\ \A r \in Reqs : ReserveCommits(r, e)
                => events'[e].availableSeats = events[e].availableSeats - 1
          /\ \A r \in Reqs : ReleaseCommits(r, e)
                => events'[e].availableSeats = events[e].availableSeats + 1
          /\ events'[e].availableSeats # events[e].availableSeats
                => \E r \in Reqs : ReserveCommits(r, e) \/ ReleaseCommits(r, e)
      ]_vars

\* C8 as amended: ... or by the write of an admin update that sets
\* seatCapacity, which stores the availableSeats the update computed from the
\* event it read (new capacity - (seatCapacity - availableSeats)).
C8_SeatsChangeOnlyBy ==
    [][ \A e \in EventIds :
          /\ \A r \in Reqs : ReserveCommits(r, e)
                => events'[e].availableSeats = events[e].availableSeats - 1
          /\ \A r \in Reqs : ReleaseCommits(r, e)
                => events'[e].availableSeats = events[e].availableSeats + 1
          /\ \A r \in Reqs : CapacityUpdateCommits(r, e)
                => /\ events'[e].availableSeats = req[r].avail
                   /\ events'[e].seatCapacity = req[r].cap
          /\ events'[e].availableSeats # events[e].availableSeats
                => \E r \in Reqs : \/ ReserveCommits(r, e)
                                   \/ ReleaseCommits(r, e)
                                   \/ CapacityUpdateCommits(r, e)
      ]_vars

\* an update has written availableSeats = 1 to an event whose only reserve
\* left 0 seats and whose reservations were never released
C8_Witness ==
    \E r \in Reqs :
        /\ req[r].kind = "update" /\ req[r].pc = "u_event" /\ req[r].cap # Undefined
        /\ req[r].event \in EventIds
        /\ Len(bookingLogs) = 1
        /\ bookingLogs[1].action = "created"
        /\ bookingLogs[1].seatsRemaining = 0
        /\ req[r].avail = 1
        /\ events[req[r].event].availableSeats = 1

\* C9: seatCapacity >= the number of Held reservations in every reachable
\* state, also when reserve calls commit between an update's read and write.
C9_CapacityCoversHeld ==
    \A e \in EventIds : events[e].seatCapacity >= Cardinality(HeldRows(e))

\* C10: a broadcast to event A is delivered only to connections whose
\* recorded watched event is A.
C10_BroadcastIsolation ==
    \A d \in wsLast.to : d.watching = wsLast.eventId

\* ------------------------------------------------------------ broadcaster
\* the watcher sets a connection is a member of
WatcherSetsOf(subs, c) == {e \in DOMAIN subs : c \in subs[e]}

\* C11: a connection id is a member of eventSubscriptions[e] if and only if
\* clients holds a record for that id whose eventId is e.
C11_RegistryConsistent ==
    \A c \in Conns, e \in WsEventIds :
        (e \in WatcherSetsOf(eventSubscriptions, c))
            <=> (c \in DOMAIN clients /\ clients[c].eventId = e)

\* C12: unsubscribe(c, e) removes c from e's watcher set if c is in it and is
\* otherwise a no-op; when c watches another event its recorded watched event
\* and every watcher set stay as they are.
C12_UnsubscribeOtherwiseNoOp ==
    [][ \A c \in Conns, e \in WsEventIds :
          WsUnsubscribe(c, e)
          => IF e \in WatcherSetsOf(eventSubscriptions, c)
             THEN /\ WatcherSetsOf(eventSubscriptions', c)
                        = WatcherSetsOf(eventSubscriptions, c) \ {e}
                  /\ \A d \in Conns \ {c} :
                        WatcherSetsOf(eventSubscriptions', d)
                            = WatcherSetsOf(eventSubscriptions, d)
             ELSE /\ clients' = clients
                  /\ eventSubscriptions' = eventSubscriptions
      ]_vars

\* the watchers of e whose send is attempted by a broadcast to e, and fails
FailingWatchers(e) ==
    IF e \in DOMAIN eventSubscriptions
    THEN {c \in eventSubscriptions[e] : c \in DOMAIN clients /\ c \in broken}
    ELSE {}

\* C13: a connection whose send fails during broadcast(e, msg) has no client
\* record and is in no watcher set when the broadcast returns, and no
\* broadcast attempts delivery to a connection without a client record.
C13_FailedSendCleansUp ==
    [][ \A e \in WsBroadcastIds :
          WsBroadcast(e)
          => /\ \A c \in FailingWatchers(e) :
                   /\ c \notin DOMAIN clients'
                   /\ WatcherSetsOf(eventSubscriptions', c) = {}
             /\ \A d \in wsLast'.to : d.clientId \in DOMAIN clients
      ]_vars

\* the callbacks of connection c that call removeClient(c)
Deregisters(c) ==
    \/ WsError(c)
    \/ WsClose(c) /\ conn[c] # "auth"

\* C14: after removeClient(c), c has no client record and is a member of no
\* watcher set; removeClient(c) of a connection without a record changes
\* nothing.
C14_DeregisterRemovesAll ==
    [][ \A c \in Conns :
          Deregisters(c)
          => /\ c \notin DOMAIN clients'
             /\ WatcherSetsOf(eventSubscriptions', c) = {}
             /\ c \notin DOMAIN clients
                   => clients' = clients /\ eventSubscriptions' = eventSubscriptions
      ]_vars

\* the watchers of e a broadcast to e sends to successfully
ReachableWatchers(e) ==
    IF e \in DOMAIN eventSubscriptions
    THEN {c \in eventSubscriptions[e] : c \in DOMAIN clients /\ c \notin broken}
    ELSE {}

\* C15: broadcast(e, msg) returns normally (the handler's step completes) and
\* every connection in e's watcher set when the call starts whose send
\* succeeds receives msg exactly once, also when other watchers' sends fail
\* and those watchers are removed during the iteration.
C15_BroadcastReachesTheRest ==
    [][ \A e \in WsBroadcastIds :
          (WsBroadcast(e) /\ e \in DOMAIN eventSubscriptions)
          => /\ wsLast'.eventId = e
             /\ {d.clientId : d \in wsLast'.to} = ReachableWatchers(e)
             /\ wsLast'.sentCount = Cardinality(ReachableWatchers(e))
             /\ wsLast'.failed = FailingWatchers(e)
      ]_vars

\* a broadcast in which one watcher's send failed and another's succeeded
C15_Witness ==
    /\ wsLast.failed # {}
    /\ wsLast.to # {}
    /\ wsLast.failed \cap DOMAIN clients = {}

\* ------------------------------------------------------------ preconditions
\* the first precondition of reserve(u, e) that fails in the current state, in
\* the order: event exists, event in the future, no Held reservation of the
\* subject, a seat available
FirstReserveFailure(u, e) ==
    LET event == getEventById(events, e) IN
    IF ~event.exists THEN MsgEventNotFound
    ELSE IF event.past THEN MsgPastEvent
    ELSE IF ConfirmedRows(bookings, u, e) # {} THEN MsgDuplicate
    ELSE IF event.availableSeats <= 0 THEN MsgNoSeats
    ELSE MsgOk

\* C18: reserve reports the first failing precondition in the order exists,
\* future, no Held reservation of the subject, availableSeats > 0: a check on
\* the event that ends the call reports what FirstReserveFailure gives for the
\* state it read, so the holder of a reservation for a sold-out future event
\* gets DuplicateReservation, not SeatsExhausted.
C18_PreconditionOrder ==
    [][ \A r \in Reqs :
          ( /\ req[r].kind = "book"
            /\ req[r].pc \in {"v_event", "c_event"}
            /\ req'[r].pc = "done" )
          => req'[r].out = FirstReserveFailure(req[r].user, req[r].event)
      ]_vars

\* the first precondition of release(u, id) that fails in the current state
FirstReleaseFailure(u, id) ==
    LET booking == getBookingByBookingId(events, bookings, id) IN
    IF ~booking.exists THEN MsgBookingNotFound
    ELSE IF Role(u) # "admin" /\ booking.userId # u THEN MsgNoCancelPermission
    ELSE IF booking.status # "confirmed" THEN MsgAlreadyCancelled
    ELSE IF booking.event.exists /\ booking.event.past THEN MsgCancelPast
    ELSE MsgOk

ReleaseErrors == {MsgBookingNotFound, MsgNoCancelPermission, MsgAlreadyCancelled, MsgCancelPast}

\* C19: release checks, in this order, that the reservation exists, that the
\* requester is its subject or an admin, that it is Held and that its event
\* has not occurred; it goes on only when all four hold, a release that fails
\* fails with the error of one of the four and changes no table.
C19_ReleasePreconditions ==
    [][ \A r \in Reqs :
          req[r].kind = "cancel"
          => /\ req[r].pc = "x_read"
                => IF FirstReleaseFailure(req[r].user, req[r].bid) = MsgOk
                   THEN req'[r].pc \in {"x_read", "x_proc"}
                   ELSE req'[r].pc = "done"
                        => req'[r].out = FirstReleaseFailure(req[r].user, req[r].bid)
             /\ (req[r].pc # "done" /\ req'[r].pc = "done" /\ req'[r].out # MsgOk)
                => /\ req'[r].out \in ReleaseErrors
                   /\ UNCHANGED dbVars
      ]_vars

\* ------------------------------------------------------------ notifications
\* the create_booking / cancel_booking transaction of booking id has committed
Committed(action, id) ==
    \E i \in 1..Len(bookingLogs) :
        bookingLogs[i].bookingId = id /\ bookingLogs[i].action = action

\* C16: a booking_created / booking_cancelled notification is broadcast only
\* by a call whose create_booking / cancel_booking transaction has committed
\* and that succeeds, and a reserve or release call that fails broadcasts
\* nothing.
C16_NotifyAfterCommit ==
    [][ /\ wsLast' # wsLast
           => \E r \in Reqs :
                 /\ req[r].pc # "done" /\ req'[r].pc = "done" /\ req'[r].out = MsgOk
                 /\ \/ /\ req[r].kind = "book"
                       /\ wsLast'.message.type = "booking_created"
                       /\ Committed("created", req[r].bid)
                    \/ /\ req[r].kind = "cancel"
                       /\ wsLast'.message.type = "booking_cancelled"
                       /\ Committed("cancelled", req[r].bid)
        /\ \A r \in Reqs :
              (req[r].pc # "done" /\ req'[r].pc = "done" /\ req'[r].out # MsgOk)
              => wsLast' = wsLast
      ]_vars

\* a cancellation notification has reached the watcher after a failed call
C16_Witness ==
    /\ wsLast.message.type = "booking_cancelled"
    /\ wsLast.to # {}
    /\ \E r \in Reqs : req[r].pc = "done" /\ req[r].out # MsgOk

\* C17: when a connection watches event E and the reserve and release calls
\* have stopped, the availableSeats carried by the last seat-change
\* notification delivered to it equals E's stored availableSeats.
C17_LastNotificationIsCurrent ==
    \A e \in EventIds :
        ( /\ Quiet
          /\ wsLast.eventId = e
          /\ wsLast.to # {} )
        => wsLast.message.availableSeats = events[e].availableSeats

\* C20: a reservation record is never removed from the store by a later
\* operation; it stays as it is or goes from Held to Released.
C20_ReservationsKept ==
    [][ \A i \in 1..Len(bookings) :
          \E j \in 1..Len(bookings') :
             /\ bookings'[j].bookingId = bookings[i].bookingId
             /\ bookings'[j].userId = bookings[i].userId
             /\ bookings'[j].eventId = bookings[i].eventId
             /\ \/ bookings'[j].status = bookings[i].status
                \/ bookings[i].status = "confirmed" /\ bookings'[j].status = "cancelled"
      ]_vars

\* the calls whose create_booking / cancel_booking statement commits in this step
CommittingCalls ==
    {r \in Reqs : \E e \in EventIds : ReserveCommits(r, e) \/ ReleaseCommits(r, e)}

\* the audit entry a committing call has to leave: action kind, reservation,
\* subject, event and the availableSeats that resulted
AuditEntryOf(r) ==
    LET i == RowOfBookingId(bookings', req'[r].bid) IN
    [bookingId |-> req'[r].bid,
     action |-> IF req[r].kind = "book" THEN "created" ELSE "cancelled",
     userId |-> bookings'[i].userId,
     eventId |-> req[r].event,
     seatsRemaining |-> events'[req[r].event].availableSeats]

\* C21: the audit log gets exactly one entry per successful reserve and per
\* successful release and none for a failed call, its entries are never
\* modified or removed, and each entry records the action kind, the subject,
\* the event and the availableSeats value that resulted from the operation.
C21_AuditLog ==
    [][ /\ Len(bookingLogs') = Len(bookingLogs) + Cardinality(CommittingCalls)
        /\ SubSeq(bookingLogs', 1, Len(bookingLogs)) = bookingLogs
        /\ \A r \in CommittingCalls : bookingLogs'[Len(bookingLogs')] = AuditEntryOf(r)
      ]_vars

\* the call r ends with a booking_created / booking_cancelled broadcast that
\* finds a watcher set
Notifies(r) ==
    /\ req[r].pc \in {"c_read", "x_event"}
    /\ req'[r].pc = "done" /\ req'[r].out = MsgOk
    /\ req[r].event \in DOMAIN eventSubscriptions

\* C22: every notification broadcast for a successful reserve or release
\* carries the event id, the kind and an availableSeats field holding the
\* event's seat count read after that operation's commit.
C22_NotificationContent ==
    [][ \A r \in Reqs : Notifies(r) =>
          /\ wsLast'.eventId = req[r].event
          /\ wsLast'.message.eventId = req[r].event
          /\ wsLast'.message.type = IF req[r].kind = "book" THEN "booking_created"
                                    ELSE "booking_cancelled"
          /\ wsLast'.message.availableSeats = events[req[r].event].availableSeats
      ]_vars

ErrorKind(msg) ==
    IF msg = MsgEventNotFound THEN "EventNotFound"
    ELSE IF msg = MsgPastEvent THEN "EventInPast"
    ELSE IF msg = MsgDuplicate THEN "DuplicateReservation"
    ELSE IF SeatsExhausted(msg) THEN "SeatsExhausted"
    ELSE IF msg = MsgBookingNotFound THEN "ReservationNotFound"
    ELSE IF msg = MsgNoCancelPermission THEN "NotAuthorized"
    ELSE IF msg = MsgAlreadyCancelled THEN "AlreadyReleased"
    ELSE IF msg = MsgCancelPast THEN "EventAlreadyOccurred"
    ELSE "Other"

\* the reserve and release calls that have failed with an allocator error
FailedCalls ==
    {r \in Reqs : /\ req[r].kind \in {"book", "cancel"}
                  /\ req[r].pc = "done"
                  /\ ErrorKind(req[r].out) # "Other"}

\* C24: at the HTTP boundary of the booking routes two calls that failed with
\* distinct allocator error kinds never get the same status/code pair.
C24_DistinctErrorCodes ==
    \A r1, r2 \in FailedCalls :
        ErrorKind(req[r1].out) # ErrorKind(req[r2].out)
        => LET a == ErrorResponse(req[r1].kind, req[r1].out)
               b == ErrorResponse(req[r2].kind, req[r2].out)
           IN <<a.status, a.code>> # <<b.status, b.code>>

\* the letter-case variants of an id
CaseVariants(id) == {toUpperCase(id), toLowerCase(id)}

\* C25: reservation ids are unique and looked up case-insensitively: no two
\* reservations share an id, getBookingByBookingId finds a reservation under
\* every letter-case variant of its id, and a release called with a variant
\* of an existing reservation's id does not fail with ReservationNotFound.
C25_CaseInsensitiveUniqueIds ==
    [][ /\ \A i, j \in 1..Len(bookings') :
              i # j => toUpperCase(bookings'[i].bookingId) # toUpperCase(bookings'[j].bookingId)
        /\ \A i \in 1..Len(bookings') : \A v \in CaseVariants(bookings'[i].bookingId) :
              LET found == getBookingByBookingId(events', bookings', v) IN
              found.exists /\ found.bookingId = bookings'[i].bookingId
        /\ \A r \in Reqs :
              ( /\ req[r].kind = "cancel" /\ req[r].pc = "x_read" /\ req'[r].pc = "done"
                /\ toUpperCase(req[r].bid) \in UsedIds(bookings) )
              => req'[r].out # MsgBookingNotFound
      ]_vars

\* the close or the error callback of connection c has run
CallbackClosed(c) == conn[c] \in {"auth_closed", "errored", "closed"}

\* C26: once a connection's close or error callback has run, the registry
\* holds no client record and no watcher-set membership for it, whatever the
\* order of the callbacks (a close may arrive while onOpen awaits the token
\* check).
C26_ClosedIsTerminal ==
    \A c \in Conns :
        CallbackClosed(c)
        => /\ c \notin DOMAIN clients
           /\ WatcherSetsOf(eventSubscriptions, c) = {}

\* the call r waits for a row lock that the call h holds
Blocks(h, r) ==
    /\ h # r
    /\ \/ /\ req[r].pc = "cb_begin"
          /\ getEventById(events, req[r].event).exists
          /\ ~EventRowLockFree({h}, req[r].event)
       \/ /\ req[r].pc = "xb_row"
          /\ ~EventRowLockFree({h}, req[r].event)
       \/ /\ req[r].pc = "xb_begin"
          /\ ~BookingRowLockFree({h}, req[r].bid)
       \/ /\ req[r].pc = "cb_locked"
          /\ ~InsertMayProceed({h}, req[r].bid, req[r].user, req[r].event)

\* the event a call works on: its argument, or the event of its booking
EventOfCall(r) ==
    IF req[r].kind = "cancel"
    THEN LET i == RowOfBookingId(bookings, req[r].bid) IN
         IF i = 0 THEN NoEvent ELSE bookings[i].eventId
    ELSE req[r].event

\* C27: every create_booking / cancel_booking call that was made eventually
\* returns (no set of calls deadlocks on the event-row and booking-row locks),
\* and a call never waits for a lock held by a call on a different event.
C27_CallsReturn ==
    /\ [](\A r, h \in Reqs : Blocks(h, r) => EventOfCall(h) = EventOfCall(r))
    /\ \A r \in Reqs : (req[r].pc # "idle") ~> (req[r].pc = "done")

\* a release waits for the event row that a reserve holds, while a call on the
\* other event holds that event's row
C27_Witness ==
    \E r, h, o \in Reqs :
        /\ Blocks(h, r)
        /\ req[r].kind = "cancel" /\ req[h].kind = "book"
        /\ req[o].pc \in {"cb_locked", "cb_inserted", "xb_both", "xb_updated"}
        /\ EventOfCall(o) # EventOfCall(r)

\* C28: a reserve call that passed the seat pre-check and is turned down by
\* create_booking's seat check under the row lock gets the response of a call
\* turned down by the pre-check: status 409 with the no-seats error.
C28_LateSoldOutSameResponse ==
    \A r \in Reqs :
        ( /\ req[r].kind = "book" /\ req[r].pc = "done"
          /\ req[r].at = "c_proc" /\ req[r].out = MsgCreateFailed )
        => LET late == ErrorResponse("book", req[r].out)
               early == ErrorResponse("book", MsgNoSeats)
           IN /\ late.status = early.status
              /\ late.code = early.code
              /\ ErrorKind(late.error) = ErrorKind(early.error)

\* C29: in every reachable state a release of a Held reservation of a future
\* event, by its owner or an admin, succeeds and increases availableSeats by 1.
C29_ReleaseOfHeldSucceeds ==
    [][ \A r \in Reqs :
          LET i == RowOfBookingId(bookings, req[r].bid)
              e == bookings[i].eventId
          IN ( /\ req[r].kind = "cancel"
               /\ req[r].pc = "x_proc" /\ req'[r].pc # "x_proc"
               /\ i # 0
               /\ bookings[i].status = "confirmed"
               /\ Role(req[r].user) = "admin" \/ bookings[i].userId = req[r].user
               /\ getEventById(events, e).exists
               /\ ~events[e].past )
             => /\ req'[r].pc = "x_event"
                /\ bookings'[i].status = "cancelled"
                /\ events'[e].availableSeats = events[e].availableSeats + 1
      ]_vars

\* C30: a reserve call fails with DuplicateReservation only when its subject
\* holds a Held reservation for the event at that moment.
C30_DuplicateOnlyForHolders ==
    [][ \A r \in Reqs :
          ( /\ req[r].kind = "book"
            /\ req[r].pc # "done" /\ req'[r].pc = "done"
            /\ req'[r].out = MsgDuplicate )
          => ConfirmedRows(bookings, req[r].user, req[r].event) # {}
      ]_vars

====
